---------------------------- MODULE Spec2Model ----------------------------
(***************************************************************************)
(* Grid trader V2 (src/grid_strategy_v2.py) driven by the backtester       *)
(* (src/backtest_v2.py).                                                   *)
(*                                                                         *)
(* Prices, ladder levels and money amounts are exact rationals <<n, d>>    *)
(* in lowest terms with d > 0: the program computes them in binary         *)
(* floating point, whose rounding is not modelled.  Timestamps of the      *)
(* series are the sample indices; the wall-clock timestamps written into   *)
(* positions and trades (datetime.now()) are left out.                     *)
(*                                                                         *)
(* Specifications: Spec is one run of run_backtest, SpecRerun lets it be   *)
(* called again, SpecReport adds generate_report after the run, SpecApi    *)
(* is a client calling the trader's and the backtester's methods itself,   *)
(* SpecTrend applies calculate_trend to price histories, and SpecScenario  *)
(* replays series over a ladder assigned by the caller.                    *)
(***************************************************************************)
EXTENDS Integers, Sequences, FiniteSets, TLC

\* ------------------------------------------------------------------ bounds
MaxTail == 4            \* free samples of a series
WarmLen == 24           \* flat samples put before the free ones (or none)
MaxRuns == 2            \* calls of run_backtest on one backtester (SpecRerun)
MaxDirect == 2          \* trades a client executes by direct calls (SpecApi)
MaxJunk == 2            \* closes older than the 25 last ones (SpecTrend)
MaxSteps == 4           \* price steps after the first sample (SpecScenario)

Prices == {10, 30, 50}      \* closes of the series
GridCounts == {1, 2, 3, 4}  \* grid_count; the sums of exact profits over a finer
                            \* ladder leave TLC's 32-bit integers
LivePrices == {10, 50}      \* what fetch_ticker may answer
ApiGridCounts == {0, 1, 2, 3}   \* grid_count of a trader whose methods a client calls

\* ------------------------------------------------------- program constants
DefaultInvestment == 1000
ShortWindow == 7
LongWindow == 25
TrendThresholdPct == 2
MinTrendIdx == 25
StopLossNum == 15       \* stop_loss_pct = 0.15 = StopLossNum / Hundred
Hundred == 100
RangePctNum == 8        \* price_range_pct = 0.08 = RangePctNum / Hundred
PadNum == 5             \* historical padding 0.05 = PadNum / Hundred
HoursPerDay == 24       \* samples of the default '1h' series in one day
DaysPerMonth == 30

\* --------------------------------------------------------------- rationals
RECURSIVE GCD(_, _)
GCD(a, b) == IF b = 0 THEN a ELSE GCD(b, a % b)

Abs(x) == IF x < 0 THEN -x ELSE x

Rat(n, d) ==
    LET s == IF d < 0 THEN -1 ELSE 1
        g == GCD(Abs(n), Abs(d))
    IN  <<(s * n) \div g, (s * d) \div g>>

R(i) == <<i, 1>>
RNeg(a) == <<-a[1], a[2]>>
\* Sums and products cancel common factors before they multiply, which keeps
\* the intermediate values small
RAdd(a, b) ==
    LET g == GCD(a[2], b[2])
    IN  Rat(a[1] * (b[2] \div g) + b[1] * (a[2] \div g), (a[2] \div g) * b[2])
RSub(a, b) == RAdd(a, RNeg(b))
RMul(a, b) ==
    LET g1 == GCD(Abs(a[1]), b[2])
        g2 == GCD(Abs(b[1]), a[2])
    IN  Rat((a[1] \div g1) * (b[1] \div g2), (a[2] \div g2) * (b[2] \div g1))
RInv(a) == IF a[1] < 0 THEN <<-a[2], -a[1]>> ELSE <<a[2], a[1]>>
RDiv(a, b) == RMul(a, RInv(b))
RLt(a, b) ==
    LET g == GCD(a[2], b[2]) IN a[1] * (b[2] \div g) < b[1] * (a[2] \div g)
RLe(a, b) ==
    LET g == GCD(a[2], b[2]) IN a[1] * (b[2] \div g) <= b[1] * (a[2] \div g)
RGt(a, b) == RLt(b, a)
RGe(a, b) == RLe(b, a)

RECURSIVE SeqSum(_)
SeqSum(s) == IF s = <<>> THEN 0 ELSE Head(s) + SeqSum(Tail(s))

RECURSIVE SeqMin(_)
SeqMin(s) ==
    IF Len(s) = 1 THEN s[1]
    ELSE LET m == SeqMin(Tail(s)) IN IF s[1] < m THEN s[1] ELSE m

RECURSIVE SeqMax(_)
SeqMax(s) ==
    IF Len(s) = 1 THEN s[1]
    ELSE LET m == SeqMax(Tail(s)) IN IF s[1] > m THEN s[1] ELSE m

LastN(s, n) == IF Len(s) <= n THEN s ELSE SubSeq(s, Len(s) - n + 1, Len(s))

Pad(x, n) == [i \in 1..n |-> x]

\* The series the exchange answers to a client's fetch: less than a day of
\* samples, and two days of them
ApiSeries == {<<10>>, Pad(30, 2 * HoursPerDay) \o <<50>>}

\* ------------------------------------------------------------------- state
VARIABLES
    exchange_series,    \* closes that fetch_ohlcv answers, oldest first
    historical_data,    \* GridBacktesterV2.historical_data; <<>> is None
    grid_count,         \* GridTraderV2.grid_count
    trend_filter,       \* GridTraderV2.trend_filter
    grids,              \* GridTraderV2.grids; grids[i + 1] is level i
    current_price,      \* GridTraderV2.current_price
    base_price,         \* GridTraderV2.base_price
    ma_short, ma_long,  \* GridTraderV2.ma_short, ma_long
    trend,              \* GridTraderV2.trend
    positions,          \* GridTraderV2.positions
    filled_orders,      \* GridTraderV2.filled_orders
    total_profit,       \* GridTraderV2.total_profit
    trade_count,        \* GridTraderV2.trade_count
    win_count,          \* GridTraderV2.win_count
    pc,                 \* where run_backtest stands
    idx,                \* samples of the series already processed
    trade_log,          \* run_backtest's trade_log
    trend_changes,      \* run_backtest's trend_changes
    runs,               \* calls of run_backtest so far
    last_scan,          \* record of the latest check_grid_signals call
    replay_fetches,     \* fetch_ticker calls made inside the replay loop
    last_call           \* record of the latest method call made from outside

trader_vars == <<grids, current_price, base_price, ma_short, ma_long, trend,
                 positions, filled_orders, total_profit, trade_count, win_count>>
driver_vars == <<historical_data, pc, idx, trade_log, trend_changes, runs,
                 last_scan, replay_fetches, last_call>>
param_vars == <<exchange_series, grid_count, trend_filter>>
vars == <<param_vars, trader_vars, driver_vars>>

stop_loss_pct == Rat(StopLossNum, Hundred)
price_range_pct == Rat(RangePctNum, Hundred)

\* The GridTraderV2 object as the methods below see it
Self ==
    [investment |-> DefaultInvestment, grid_count |-> grid_count,
     trend_filter |-> trend_filter, grids |-> grids,
     current_price |-> current_price, base_price |-> base_price,
     ma_short |-> ma_short, ma_long |-> ma_long, trend |-> trend,
     positions |-> positions, filled_orders |-> filled_orders,
     total_profit |-> total_profit, trade_count |-> trade_count,
     win_count |-> win_count]

\* The answers of exchange.fetch_ticker: a last price, or the call raises.
ExchangeTicks ==
    {[ok |-> TRUE, last |-> p] : p \in LivePrices} \cup {[ok |-> FALSE, last |-> 0]}

\* --------------------------------------------------------------- GridLadder
\* Mutant of Linspace: the stop value is left out (endpoint=False).
LinspaceOpen(start, stop, num) ==
    [i \in 1..num |-> RAdd(start, RMul(R(i - 1), RDiv(RSub(stop, start), R(num))))]

\* np.linspace(start, stop, num): start + i * step, the last sample set to stop.
Linspace(start, stop, num) ==
    LET step == IF num > 1 THEN RDiv(RSub(stop, start), R(num - 1)) ELSE R(0)
    IN  [i \in 1..num |->
            IF num > 1 /\ i = num THEN stop
            ELSE RAdd(start, RMul(R(i - 1), step))]

\* initialize: bounds = base_price * (1 -/+ price_range_pct)
AnchorLower(base) == RMul(base, RSub(R(1), price_range_pct))
AnchorUpper(base) == RMul(base, RAdd(R(1), price_range_pct))
AnchorGrids(base, count) ==
    Linspace(AnchorLower(base), AnchorUpper(base), count + 1)

\* Mutant of HistoricalLower: the lowest close itself, without the padding.
HistoricalLowerUnpadded(closes) == R(SeqMin(closes))

\* run_backtest: bounds = min and max close, each moved outward by 5% of the range
HistoricalLower(closes) ==
    RSub(R(SeqMin(closes)),
         RMul(R(SeqMax(closes) - SeqMin(closes)), Rat(PadNum, Hundred)))
HistoricalUpper(closes) ==
    RAdd(R(SeqMax(closes)),
         RMul(R(SeqMax(closes) - SeqMin(closes)), Rat(PadNum, Hundred)))
HistoricalGrids(closes, count) ==
    Linspace(HistoricalLower(closes), HistoricalUpper(closes), count + 1)

\* ---------------------------------------------------------- TrendClassifier
Mean(s) == Rat(SeqSum(s), Len(s))

\* Mutant of TrendLabel: a difference of exactly +2 or -2 percent is a trend.
TrendLabelInclusive(diff_pct) ==
    IF RGe(diff_pct, R(TrendThresholdPct)) THEN "up"
    ELSE IF RLe(diff_pct, R(-TrendThresholdPct)) THEN "down"
    ELSE "neutral"

TrendLabel(diff_pct) ==
    IF RGt(diff_pct, R(TrendThresholdPct)) THEN "up"
    ELSE IF RLt(diff_pct, R(-TrendThresholdPct)) THEN "down"
    ELSE "neutral"

\* calculate_trend: the label it returns, and the trader with the two moving
\* averages it stores
calculate_trend(self, price_history) ==
    IF Len(price_history) < LongWindow
    THEN [label |-> "neutral", self |-> self]
    ELSE LET ms == Mean(LastN(price_history, ShortWindow))
             ml == Mean(LastN(price_history, LongWindow))
             diff_pct == RMul(RDiv(RSub(ms, ml), ml), R(Hundred))
         IN  [label |-> TrendLabel(diff_pct),
              self |-> [self EXCEPT !.ma_short = ms, !.ma_long = ml]]

\* ------------------------------------------------------------------ status
RECURSIVE SumCost(_)
SumCost(ps) == IF ps = <<>> THEN R(0) ELSE RAdd(Head(ps).cost, SumCost(Tail(ps)))

RECURSIVE SumValue(_, _)
SumValue(ps, price) ==
    IF ps = <<>> THEN R(0)
    ELSE RAdd(RMul(Head(ps).quantity, price), SumValue(Tail(ps), price))

\* Mutant of get_status: the win rate is the share of wins in the closed trades
\* scaled twice to percent.
get_status_RateScaledTwice(self, last) ==
    LET cash == RSub(R(self.investment), SumCost(self.positions))
        position_value == SumValue(self.positions, R(last))
        total_value == RAdd(RAdd(cash, position_value), self.total_profit)
        unrealized_pnl == RSub(position_value, SumCost(self.positions))
    IN  [current_price |-> R(last),
         trend |-> self.trend,
         ma_short |-> self.ma_short,
         ma_long |-> self.ma_long,
         total_trades |-> self.trade_count,
         win_rate |-> IF self.trade_count > 0
                      THEN RMul(RMul(Rat(self.win_count, self.trade_count), R(Hundred)),
                                R(Hundred))
                      ELSE R(0),
         realized_profit |-> self.total_profit,
         unrealized_pnl |-> unrealized_pnl,
         total_pnl |-> RAdd(self.total_profit, unrealized_pnl),
         total_value |-> total_value,
         total_return_pct |->
             RMul(RDiv(RSub(total_value, R(self.investment)), R(self.investment)),
                  R(Hundred)),
         open_positions |-> Len(self.positions)]

\* get_status, given the last price that its fetch_ticker call answered
get_status(self, last) ==
    LET cash == RSub(R(self.investment), SumCost(self.positions))
        position_value == SumValue(self.positions, R(last))
        total_value == RAdd(RAdd(cash, position_value), self.total_profit)
        unrealized_pnl == RSub(position_value, SumCost(self.positions))
    IN  [current_price |-> R(last),
         trend |-> self.trend,
         ma_short |-> self.ma_short,
         ma_long |-> self.ma_long,
         total_trades |-> self.trade_count,
         win_rate |-> IF self.trade_count > 0
                      THEN RMul(Rat(self.win_count, self.trade_count), R(Hundred))
                      ELSE R(0),
         realized_profit |-> self.total_profit,
         unrealized_pnl |-> unrealized_pnl,
         total_pnl |-> RAdd(self.total_profit, unrealized_pnl),
         total_value |-> total_value,
         total_return_pct |->
             RMul(RDiv(RSub(total_value, R(self.investment)), R(self.investment)),
                  R(Hundred)),
         open_positions |-> Len(self.positions)]

\* --------------------------------------------------------- position-open gate
\* The stop-loss test of should_open_position: get_status asks the exchange for
\* the last price; raised: that call failed; ticks: the answers it gave
StopLossOutcomes(self) ==
    {IF ~t.ok
     THEN [raised |-> TRUE, open |-> FALSE, ticks |-> <<t>>]
     ELSE [raised |-> FALSE,
           open |-> ~RLt(get_status(self, t.last).total_return_pct,
                         RMul(RNeg(stop_loss_pct), R(Hundred))),
           ticks |-> <<t>>]
     : t \in ExchangeTicks}

\* Mutant of should_open_position: the downtrend test is missing.
should_open_position_NoTrend(self) ==
    IF ~self.trend_filter
    THEN {[raised |-> FALSE, open |-> TRUE, ticks |-> <<>>]}
    ELSE StopLossOutcomes(self)

\* Mutant of should_open_position: the trend_filter flag is not looked at.
should_open_position_NoFlag(self) ==
    IF self.trend = "down"
    THEN {[raised |-> FALSE, open |-> FALSE, ticks |-> <<>>]}
    ELSE StopLossOutcomes(self)

\* should_open_position: every way one call can end
should_open_position(self) ==
    IF ~self.trend_filter
    THEN {[raised |-> FALSE, open |-> TRUE, ticks |-> <<>>]}
    ELSE IF self.trend = "down"
    THEN {[raised |-> FALSE, open |-> FALSE, ticks |-> <<>>]}
    ELSE StopLossOutcomes(self)

\* ------------------------------------------------------------- SignalEngine
HasPosition(ps, i) == \E k \in 1..Len(ps) : ps[k].grid_index = i

\* Mutant of BuyCrossing: a level equal to the previous price counts as crossed.
BuyCrossingInclusive(self, price, grid_price) ==
    RLe(price, grid_price) /\ RLe(grid_price, self.current_price)

\* Mutant of BuyCrossing: the previous price is not looked at.
BuyCrossingBelowLevel(self, price, grid_price) == RLe(price, grid_price)

BuyCrossing(self, price, grid_price) ==
    RLe(price, grid_price) /\ RLt(grid_price, self.current_price)
SellCrossing(self, price, grid_price) ==
    RGe(price, grid_price) /\ RGt(grid_price, self.current_price)

\* Mutant of BuySlot: a buy is blocked by a position of the level above.
BuySlotAbove(grid_index) == grid_index + 1

\* Mutant of BuySlot: the buy branch looks at the slot the sell branch looks at.
BuySlotBelow(grid_index) == grid_index - 1

\* The index of the position that blocks a buy at grid_index
BuySlot(grid_index) == grid_index

\* Mutant of SellSlot: a sell closes the position of the level above.
SellSlotAbove(grid_index) == grid_index + 1

\* Mutant of SellSlot: a sell closes the position of its own level.
SellSlotSame(grid_index) == grid_index

\* The index of the position that a sell at grid_index closes
SellSlot(grid_index) == grid_index - 1

Signal(action, price, grid_index) ==
    [action |-> action, price |-> price, grid_index |-> grid_index]

\* check_grid_signals from level i on; acc holds the signals found so far, the
\* gate's answers (gates) and the ticker answers it used (ticks).  The result is
\* the set of ways the call can end: one per sequence of ticker answers.
RECURSIVE ScanFrom(_, _, _, _)
ScanFrom(self, i, price, acc) ==
    IF i > Len(self.grids) - 1 THEN {acc}
    ELSE LET grid_price == self.grids[i + 1] IN
         IF BuyCrossing(self, price, grid_price)
         THEN IF HasPosition(self.positions, BuySlot(i))
              THEN ScanFrom(self, i + 1, price, acc)
              ELSE UNION {
                     LET seen == [acc EXCEPT
                                    !.ticks = @ \o g.ticks,
                                    !.gates = Append(@, [grid_index |-> i, open |-> g.open])]
                     IN  IF g.raised
                         THEN {[seen EXCEPT !.raised = TRUE]}
                         ELSE ScanFrom(self, i + 1, price,
                                [seen EXCEPT !.signals =
                                    IF g.open
                                    THEN Append(@, Signal("buy", grid_price, i))
                                    ELSE @])
                     : g \in should_open_position(self)}
         ELSE IF SellCrossing(self, price, grid_price)
         THEN IF HasPosition(self.positions, SellSlot(i))
              THEN ScanFrom(self, i + 1, price,
                     [acc EXCEPT !.signals = Append(@, Signal("sell", grid_price, i))])
              ELSE ScanFrom(self, i + 1, price, acc)
         ELSE ScanFrom(self, i + 1, price, acc)

check_grid_signals(self, price) ==
    ScanFrom(self, 0, price,
             [signals |-> <<>>, gates |-> <<>>, ticks |-> <<>>, raised |-> FALSE])

\* ------------------------------------------------------------ TradeExecutor
FirstAt(ps, i) == CHOOSE k \in 1..Len(ps) :
    ps[k].grid_index = i /\ \A j \in 1..(k - 1) : ps[j].grid_index # i

\* list.remove(x): drops the first element equal to x
RemoveFirst(ps, x) ==
    LET k == CHOOSE k \in 1..Len(ps) : ps[k] = x /\ \A j \in 1..(k - 1) : ps[j] # x
    IN  SubSeq(ps, 1, k - 1) \o SubSeq(ps, k + 1, Len(ps))

\* Mutant of SellProfit: the quantity is the one execute_trade computes from the
\* price of the sell, not the one stored in the position.
SellProfitRequoted(buy_order, price) ==
    RSub(RMul(RDiv(buy_order.cost, price), price), buy_order.cost)

\* The profit of closing buy_order at price: the quantity bought, sold at price
SellProfit(buy_order, price) == RSub(RMul(buy_order.quantity, price), buy_order.cost)

\* Mutant of execute_trade: a sell that finds no position does nothing and
\* returns.
execute_trade_SilentSell(self, action, price, grid_index) ==
    LET amount_per_grid == Rat(self.investment, self.grid_count)
        quantity == RDiv(amount_per_grid, price)
    IN  IF self.grid_count = 0
        THEN [raised |-> TRUE, error |-> "ZeroDivisionError", self |-> self]
        ELSE IF action = "buy"
        THEN [raised |-> FALSE, error |-> "",
              self |-> [self EXCEPT
                          !.positions = Append(@,
                              [action |-> "buy", price |-> price, quantity |-> quantity,
                               cost |-> amount_per_grid, grid_index |-> grid_index,
                               trend_at_entry |-> self.trend]),
                          !.trade_count = @ + 1]]
        ELSE IF action = "sell" /\ HasPosition(self.positions, SellSlot(grid_index))
        THEN LET buy_order == self.positions[FirstAt(self.positions, SellSlot(grid_index))]
                 profit == SellProfit(buy_order, price)
             IN  [raised |-> FALSE, error |-> "",
                  self |-> [self EXCEPT
                              !.filled_orders = Append(@,
                                  [buy_price |-> buy_order.price, sell_price |-> price,
                                   quantity |-> buy_order.quantity, profit |-> profit,
                                   profit_pct |-> RMul(RDiv(profit, buy_order.cost), R(Hundred)),
                                   grid_index |-> grid_index,
                                   trend_at_entry |-> buy_order.trend_at_entry,
                                   trend_at_exit |-> self.trend]),
                              !.positions = RemoveFirst(@, buy_order),
                              !.total_profit = RAdd(@, profit),
                              !.trade_count = @ + 1,
                              !.win_count = IF RGt(profit, R(0)) THEN @ + 1 ELSE @]]
        ELSE [raised |-> FALSE, error |-> "", self |-> self]

\* execute_trade: raised is the ZeroDivisionError of investment / grid_count or
\* the IndexError of a sell that finds no position
execute_trade(self, action, price, grid_index) ==
    LET amount_per_grid == Rat(self.investment, self.grid_count)
        quantity == RDiv(amount_per_grid, price)
    IN  IF self.grid_count = 0
        THEN [raised |-> TRUE, error |-> "ZeroDivisionError", self |-> self]
        ELSE IF action = "buy"
        THEN LET order == [action |-> "buy", price |-> price, quantity |-> quantity,
                           cost |-> amount_per_grid, grid_index |-> grid_index,
                           trend_at_entry |-> self.trend]
             IN  [raised |-> FALSE, error |-> "",
                  self |-> [self EXCEPT !.positions = Append(@, order),
                                        !.trade_count = @ + 1]]
        ELSE IF action = "sell"
        THEN IF ~HasPosition(self.positions, SellSlot(grid_index))
             THEN [raised |-> TRUE, error |-> "IndexError", self |-> self]
             ELSE LET buy_order == self.positions[FirstAt(self.positions, SellSlot(grid_index))]
                      profit == SellProfit(buy_order, price)
                      profit_pct == RMul(RDiv(profit, buy_order.cost), R(Hundred))
                      trade == [buy_price |-> buy_order.price, sell_price |-> price,
                                quantity |-> buy_order.quantity, profit |-> profit,
                                profit_pct |-> profit_pct, grid_index |-> grid_index,
                                trend_at_entry |-> buy_order.trend_at_entry,
                                trend_at_exit |-> self.trend]
                  IN  [raised |-> FALSE, error |-> "",
                       self |-> [self EXCEPT
                                   !.filled_orders = Append(@, trade),
                                   !.positions = RemoveFirst(@, buy_order),
                                   !.total_profit = RAdd(@, profit),
                                   !.trade_count = @ + 1,
                                   !.win_count = IF RGt(profit, R(0)) THEN @ + 1 ELSE @]]
        ELSE [raised |-> FALSE, error |-> "", self |-> self]

\* Mutant of ExecuteSignals: only the buys get a row in the trade log.
RECURSIVE ExecuteSignalsSkipSellRows(_, _, _, _)
ExecuteSignalsSkipSellRows(self, signals, log, timestamp) ==
    IF signals = <<>> THEN [raised |-> FALSE, self |-> self, log |-> log]
    ELSE LET s == Head(signals)
             r == execute_trade(self, s.action, s.price, s.grid_index)
         IN  IF r.raised THEN [raised |-> TRUE, self |-> r.self, log |-> log]
             ELSE ExecuteSignalsSkipSellRows(r.self, Tail(signals),
                    IF s.action = "buy"
                    THEN Append(log, [timestamp |-> timestamp, action |-> s.action,
                                      price |-> s.price, grid_index |-> s.grid_index,
                                      trend |-> r.self.trend])
                    ELSE log,
                    timestamp)

\* run_backtest's loop over the signals of one sample: each is executed and then
\* logged; an exception ends the loop where it is raised
RECURSIVE ExecuteSignals(_, _, _, _)
ExecuteSignals(self, signals, log, timestamp) ==
    IF signals = <<>> THEN [raised |-> FALSE, self |-> self, log |-> log]
    ELSE LET s == Head(signals)
             r == execute_trade(self, s.action, s.price, s.grid_index)
         IN  IF r.raised THEN [raised |-> TRUE, self |-> r.self, log |-> log]
             ELSE ExecuteSignals(r.self, Tail(signals),
                    Append(log, [timestamp |-> timestamp, action |-> s.action,
                                 price |-> s.price, grid_index |-> s.grid_index,
                                 trend |-> r.self.trend]),
                    timestamp)

\* ------------------------------------------------------------ BacktestDriver
Tails == UNION {[1..n -> Prices] : n \in 1..MaxTail}

\* The series the exchange may answer: up to MaxTail free closes, alone or after
\* WarmLen closes equal to the first of them (so that the replay reaches the
\* samples at which the trend is classified)
SeriesFamily == {Pad(t[1], w) \o t : t \in Tails, w \in {0, WarmLen}}

NoScan ==
    [valid |-> FALSE, timestamp |-> 0, previous |-> R(0), price |-> R(0),
     trend |-> "neutral", positions |-> <<>>, total_profit |-> R(0),
     signals |-> <<>>, gates |-> <<>>, ticks |-> <<>>, raised |-> FALSE]

\* No method has been called from outside yet
NoCall == [op |-> "none"]

\* GridTraderV2.__init__ and GridBacktesterV2.__init__
Init ==
    /\ exchange_series \in SeriesFamily
    /\ grid_count \in GridCounts
    /\ trend_filter \in BOOLEAN
    /\ historical_data = <<>>
    /\ grids = <<>>
    /\ current_price = R(0)
    /\ base_price = R(0)
    /\ ma_short = R(0)
    /\ ma_long = R(0)
    /\ trend = "neutral"
    /\ positions = <<>>
    /\ filled_orders = <<>>
    /\ total_profit = R(0)
    /\ trade_count = 0
    /\ win_count = 0
    /\ pc = "UNINITIALIZED"
    /\ idx = 0
    /\ trade_log = <<>>
    /\ trend_changes = <<>>
    /\ runs = 0
    /\ last_scan = NoScan
    /\ replay_fetches = 0
    /\ last_call = NoCall

\* The trader's fields after a method left it as self
SetTrader(self) ==
    /\ grids' = self.grids
    /\ current_price' = self.current_price
    /\ base_price' = self.base_price
    /\ ma_short' = self.ma_short
    /\ ma_long' = self.ma_long
    /\ trend' = self.trend
    /\ positions' = self.positions
    /\ filled_orders' = self.filled_orders
    /\ total_profit' = self.total_profit
    /\ trade_count' = self.trade_count
    /\ win_count' = self.win_count

\* GridTraderV2.initialize(), called without a price history: the anchor-mode
\* ladder around the live price; a failing fetch_ticker ends the program
Initialize ==
    /\ pc = "UNINITIALIZED"
    /\ grids = <<>>
    /\ \E t \in ExchangeTicks :
         IF t.ok
         THEN /\ SetTrader([Self EXCEPT
                              !.current_price = R(t.last),
                              !.base_price = R(t.last),
                              !.grids = AnchorGrids(R(t.last), grid_count)])
              /\ UNCHANGED <<param_vars, driver_vars>>
         ELSE /\ pc' = "FAILED"
              /\ UNCHANGED <<param_vars, trader_vars, historical_data, idx, trade_log,
                             trend_changes, runs, last_scan, replay_fetches,
                             last_call>>

\* run_backtest up to its loop: the series is fetched if there is none yet, the
\* first close becomes the current price and the ladder is built from the series
SetupBody ==
    \E fetched \in BOOLEAN :
        /\ ~fetched => historical_data = <<>>
        /\ IF fetched
           THEN LET df == IF historical_data = <<>> THEN exchange_series
                          ELSE historical_data
                    first_price == R(df[1])
                IN  /\ historical_data' = df
                    /\ SetTrader([Self EXCEPT
                                    !.current_price = first_price,
                                    !.base_price = first_price,
                                    !.grids = HistoricalGrids(df, grid_count)])
                    /\ pc' = "READY"
                    /\ idx' = 0
                    /\ trade_log' = <<>>
                    /\ trend_changes' = <<>>
                    /\ runs' = runs + 1
                    /\ last_scan' = NoScan
                    /\ UNCHANGED <<param_vars, replay_fetches, last_call>>
           ELSE /\ pc' = "FAILED"
                /\ runs' = runs + 1
                /\ UNCHANGED <<param_vars, trader_vars, historical_data, idx,
                               trade_log, trend_changes, last_scan, replay_fetches,
                               last_call>>

Setup ==
    /\ pc = "UNINITIALIZED"
    /\ SetupBody

\* Mutant of SampleTrend: the label is classified from the closes before the
\* sample.
SampleTrendBeforeSample ==
    IF idx >= MinTrendIdx
    THEN calculate_trend(Self, SubSeq(historical_data, 1, idx))
    ELSE [label |-> trend, self |-> Self]

\* The loop's trend update for the sample at index idx: the label is classified
\* from the closes up to and including that sample once idx >= 25
SampleTrend ==
    IF idx >= MinTrendIdx
    THEN calculate_trend(Self, SubSeq(historical_data, 1, idx + 1))
    ELSE [label |-> trend, self |-> Self]

\* Mutant of SampleSelf: the scan runs before the new label is stored.
SampleSelfStaleTrend == SampleTrend.self

\* The trader as the scan of the sample at index idx sees it
SampleSelf == [SampleTrend.self EXCEPT !.trend = SampleTrend.label]

SamplePrice == R(historical_data[idx + 1])

\* One pass of run_backtest's loop, for the sample at index idx
ProcessSample ==
    /\ pc \in {"READY", "RUNNING"}
    /\ idx < Len(historical_data)
    /\ \E scan \in check_grid_signals(SampleSelf, SamplePrice) :
         LET ex == IF scan.raised
                   THEN [raised |-> TRUE, self |-> SampleSelf, log |-> trade_log]
                   ELSE ExecuteSignals(SampleSelf, scan.signals, trade_log, idx)
         IN  /\ SetTrader(IF ex.raised THEN ex.self
                          ELSE [ex.self EXCEPT !.current_price = SamplePrice])
             /\ pc' = IF ex.raised THEN "FAILED" ELSE "RUNNING"
             /\ idx' = IF ex.raised THEN idx ELSE idx + 1
             /\ trade_log' = ex.log
             /\ trend_changes' =
                  IF idx >= MinTrendIdx /\ trend # SampleTrend.label
                  THEN Append(trend_changes,
                              [timestamp |-> idx, from |-> trend,
                               to |-> SampleTrend.label, price |-> SamplePrice])
                  ELSE trend_changes
             /\ last_scan' =
                  [valid |-> TRUE, timestamp |-> idx,
                   previous |-> SampleSelf.current_price, price |-> SamplePrice,
                   trend |-> SampleSelf.trend, positions |-> SampleSelf.positions,
                   total_profit |-> SampleSelf.total_profit,
                   signals |-> scan.signals, gates |-> scan.gates,
                   ticks |-> scan.ticks, raised |-> scan.raised]
             /\ replay_fetches' = replay_fetches + Len(scan.ticks)
             /\ UNCHANGED <<param_vars, historical_data, runs, last_call>>

\* run_backtest returns the two logs
Finish ==
    /\ pc \in {"READY", "RUNNING"}
    /\ idx = Len(historical_data)
    /\ pc' = "DONE"
    /\ UNCHANGED <<param_vars, trader_vars, historical_data, idx, trade_log,
                   trend_changes, runs, last_scan, replay_fetches, last_call>>

\* run_backtest called again on the backtester whose run has ended
Rerun ==
    /\ pc = "DONE"
    /\ runs < MaxRuns
    /\ SetupBody

Next == Initialize \/ Setup \/ ProcessSample \/ Finish

Spec == Init /\ [][Next]_vars

NextRerun == Next \/ Rerun

SpecRerun == Init /\ [][NextRerun]_vars

\* ------------------------------------------------------------------ report
\* Mutant of EquityFrom: the profits are taken off the equity.
RECURSIVE EquityFromDebited(_, _)
EquityFromDebited(running_equity, orders) ==
    IF orders = <<>> THEN <<>>
    ELSE LET e == RSub(running_equity, Head(orders).profit)
         IN  <<e>> \o EquityFromDebited(e, Tail(orders))

\* generate_report's equity curve: the investment, then the investment plus the
\* running sum of the closed trades' profits
RECURSIVE EquityFrom(_, _)
EquityFrom(running_equity, orders) ==
    IF orders = <<>> THEN <<>>
    ELSE LET e == RAdd(running_equity, Head(orders).profit)
         IN  <<e>> \o EquityFrom(e, Tail(orders))

EquityCurve(self) == <<R(self.investment)>> \o EquityFrom(R(self.investment), self.filled_orders)

\* generate_report's loop over the equity curve, from the peak and the maximum
\* reached so far
RECURSIVE DrawdownFrom(_, _, _)
DrawdownFrom(curve, peak, max_dd) ==
    IF curve = <<>> THEN max_dd
    ELSE LET equity == Head(curve)
             pk == IF RGt(equity, peak) THEN equity ELSE peak
             drawdown == RMul(RDiv(RSub(pk, equity), pk), R(Hundred))
         IN  DrawdownFrom(Tail(curve), pk,
                          IF RGt(drawdown, max_dd) THEN drawdown ELSE max_dd)

\* Mutant of max_drawdown: the net fall from the investment to the last equity,
\* whatever happened in between.
max_drawdown_NetChange(self) ==
    LET curve == EquityCurve(self)
    IN  RMul(RDiv(RSub(R(self.investment), curve[Len(curve)]), R(self.investment)),
             R(Hundred))

\* generate_report's max_drawdown
max_drawdown(self) == DrawdownFrom(EquityCurve(self), R(self.investment), R(0))

\* The days between the first and the last timestamp of an hourly series, one
\* at least
total_days(df) ==
    LET days == (Len(df) - 1) \div HoursPerDay
    IN  IF days = 0 THEN 1 ELSE days

\* generate_report's per-trend statistics of the closed trades
trend_stats(self) ==
    {[trend |-> l,
      count |-> Cardinality({k \in 1..Len(self.filled_orders) :
                               self.filled_orders[k].trend_at_entry = l}),
      win |-> Cardinality({k \in 1..Len(self.filled_orders) :
                             /\ self.filled_orders[k].trend_at_entry = l
                             /\ RGt(self.filled_orders[k].profit, R(0))})]
     : l \in {self.filled_orders[k].trend_at_entry : k \in 1..Len(self.filled_orders)}}

\* Mutant of generate_report: the win rate is the share of wins in the closed
\* trades.
generate_report_WinsPerClosed(self, last, df) ==
    LET status == get_status(self, last)
    IN  [total_return_pct |-> status.total_return_pct,
         monthly_return |->
             RMul(RDiv(status.total_return_pct, R(total_days(df))), R(DaysPerMonth)),
         win_rate |-> IF self.filled_orders = <<>> THEN R(0)
                      ELSE RMul(Rat(self.win_count, Len(self.filled_orders)), R(Hundred)),
         max_drawdown |-> max_drawdown(self),
         total_trades |-> status.total_trades,
         trend_stats |-> trend_stats(self)]

\* generate_report, given the last price its get_status call was answered and
\* the series df the backtester holds
generate_report(self, last, df) ==
    LET status == get_status(self, last)
    IN  [total_return_pct |-> status.total_return_pct,
         monthly_return |->
             RMul(RDiv(status.total_return_pct, R(total_days(df))), R(DaysPerMonth)),
         win_rate |-> status.win_rate,
         max_drawdown |-> max_drawdown(self),
         total_trades |-> status.total_trades,
         trend_stats |-> trend_stats(self)]

\* backtester.generate_report() called after the run (or without one): the
\* ticker fetch of get_status may fail, and without a series the method raises
GenerateReport ==
    /\ pc \in {"UNINITIALIZED", "DONE"}
    /\ \E t \in ExchangeTicks :
         last_call' =
             IF ~t.ok THEN [op |-> "generate_report", raised |-> TRUE,
                            error |-> "NetworkError", before |-> Self]
             ELSE IF historical_data = <<>>
             THEN [op |-> "generate_report", raised |-> TRUE,
                   error |-> "TypeError", before |-> Self]
             ELSE [op |-> "generate_report", raised |-> FALSE, error |-> "",
                   before |-> Self, last |-> t.last,
                   report |-> generate_report(Self, t.last, historical_data)]
    /\ UNCHANGED <<param_vars, trader_vars, historical_data, pc, idx, trade_log,
                   trend_changes, runs, last_scan, replay_fetches>>

\* The backtest script: generate_report once run_backtest has returned
ReportAfterRun ==
    /\ pc = "DONE"
    /\ GenerateReport

NextReport == Next \/ ReportAfterRun

SpecReport == Init /\ [][NextReport]_vars

\* ------------------------------------------------------------ direct calls
\* The objects as their constructors leave them
Constructed ==
    /\ historical_data = <<>>
    /\ grids = <<>>
    /\ current_price = R(0)
    /\ base_price = R(0)
    /\ ma_short = R(0)
    /\ ma_long = R(0)
    /\ trend = "neutral"
    /\ positions = <<>>
    /\ filled_orders = <<>>
    /\ total_profit = R(0)
    /\ trade_count = 0
    /\ win_count = 0
    /\ pc = "UNINITIALIZED"
    /\ idx = 0
    /\ trade_log = <<>>
    /\ trend_changes = <<>>
    /\ runs = 0
    /\ last_scan = NoScan
    /\ replay_fetches = 0
    /\ last_call = NoCall

\* A client that calls the methods of the trader and the backtester itself
InitApi ==
    /\ exchange_series \in ApiSeries
    /\ grid_count \in ApiGridCounts
    /\ trend_filter \in BOOLEAN
    /\ Constructed

\* trader.execute_trade(action, price, grid_index) called by the client, at the
\* lowest or the highest price of the ladder
ExecuteTrade ==
    /\ pc = "UNINITIALIZED"
    /\ grids # <<>>
    /\ trade_count < MaxDirect
    /\ \E action \in {"buy", "sell"}, price \in {grids[1], grids[Len(grids)]},
          grid_index \in 0..(Len(grids) - 1) :
         LET r == execute_trade(Self, action, price, grid_index)
         IN  /\ SetTrader(r.self)
             /\ last_call' = [op |-> "execute_trade", raised |-> r.raised,
                              error |-> r.error, before |-> Self, action |-> action,
                              price |-> price, grid_index |-> grid_index]
    /\ UNCHANGED <<param_vars, historical_data, pc, idx, trade_log, trend_changes,
                   runs, last_scan, replay_fetches>>

\* trader.get_status() called by the client
GetStatus ==
    /\ pc = "UNINITIALIZED"
    /\ \E t \in ExchangeTicks :
         last_call' =
             IF ~t.ok THEN [op |-> "get_status", raised |-> TRUE,
                            error |-> "NetworkError", before |-> Self]
             ELSE [op |-> "get_status", raised |-> FALSE, error |-> "",
                   before |-> Self, last |-> t.last,
                   status |-> get_status(Self, t.last)]
    /\ UNCHANGED <<param_vars, trader_vars, historical_data, pc, idx, trade_log,
                   trend_changes, runs, last_scan, replay_fetches>>

\* backtester.fetch_historical_data() called by the client
FetchHistoricalData ==
    /\ pc = "UNINITIALIZED"
    /\ \E fetched \in BOOLEAN :
         /\ historical_data' = IF fetched THEN exchange_series ELSE historical_data
         /\ last_call' = [op |-> "fetch_historical_data", raised |-> ~fetched,
                          error |-> IF fetched THEN "" ELSE "NetworkError",
                          before |-> Self]
    /\ UNCHANGED <<param_vars, trader_vars, pc, idx, trade_log, trend_changes,
                   runs, last_scan, replay_fetches>>

NextApi ==
    Initialize \/ ExecuteTrade \/ GetStatus \/ FetchHistoricalData \/ GenerateReport

SpecApi == InitApi /\ [][NextApi]_vars

\* --------------------------------------------------------- trend classifier
\* Price histories a client classifies: MaxJunk old closes, then 18 closes at one
\* value and 7 at another, cut to their last 7, 24, 25 or all samples.  Over 18
\* closes of 893 the last 7 at 918 lie exactly 2% above the mean of the 25, over
\* 907 the last 7 at 882 exactly 2% below
TrendWindows ==
    {LastN(Pad(c, MaxJunk) \o Pad(a, LongWindow - ShortWindow) \o Pad(b, ShortWindow), n) :
        c \in {1, 5000}, a \in {892, 893, 900, 907, 908}, b \in {882, 918},
        n \in {ShortWindow, LongWindow - 1, LongWindow, LongWindow + MaxJunk}}

\* trader.calculate_trend(price_history) called by the client: the label is
\* returned, the two moving averages are stored
CalculateTrend ==
    /\ pc = "UNINITIALIZED"
    /\ \E price_history \in TrendWindows :
         LET r == calculate_trend(Self, price_history)
         IN  /\ SetTrader(r.self)
             /\ last_call' = [op |-> "calculate_trend", raised |-> FALSE, error |-> "",
                              before |-> Self, price_history |-> price_history,
                              label |-> r.label]
    /\ UNCHANGED <<param_vars, historical_data, pc, idx, trade_log, trend_changes,
                   runs, last_scan, replay_fetches>>

NextTrend == CalculateTrend

SpecTrend == InitApi /\ [][NextTrend]_vars

\* ----------------------------------------------------------------- scenario
\* The ladder of the worked scenario, assigned to trader.grids as it stands
ScenarioGrids == <<R(90), R(95), R(100), R(105), R(110)>>

\* Series of the scenario's prices that start at 100
ScenarioSeries ==
    {<<100>> \o t : t \in UNION {[1..n -> {94, 96, 104, 106}] : n \in 0..MaxSteps}}

\* run_backtest's state before its loop, over a series of the scenario and with
\* the scenario's ladder in place of the one computed from the series
InitScenario ==
    /\ exchange_series \in ScenarioSeries
    /\ grid_count = Len(ScenarioGrids) - 1
    /\ trend_filter \in BOOLEAN
    /\ historical_data = exchange_series
    /\ grids = ScenarioGrids
    /\ current_price = R(exchange_series[1])
    /\ base_price = R(exchange_series[1])
    /\ ma_short = R(0)
    /\ ma_long = R(0)
    /\ trend = "neutral"
    /\ positions = <<>>
    /\ filled_orders = <<>>
    /\ total_profit = R(0)
    /\ trade_count = 0
    /\ win_count = 0
    /\ pc = "READY"
    /\ idx = 0
    /\ trade_log = <<>>
    /\ trend_changes = <<>>
    /\ runs = 1
    /\ last_scan = NoScan
    /\ replay_fetches = 0
    /\ last_call = NoCall

NextScenario == ProcessSample \/ Finish

SpecScenario == InitScenario /\ [][NextScenario]_vars

\* ================================================================== claims
Levels == 0..(Len(grids) - 1)

SeqRange(q) == {q[k] : k \in 1..Len(q)}

HeldAt(ps, i) == {k \in 1..Len(ps) : ps[k].grid_index = i}

RECURSIVE SumProfit(_)
SumProfit(orders) ==
    IF orders = <<>> THEN R(0) ELSE RAdd(Head(orders).profit, SumProfit(Tail(orders)))

\* ----------------------------------------------------------------------- C1
\* C1: in a replay started from an empty book, after every sample the positions
\* list holds at most one position with any given grid index.
C1_AtMostOnePerIndex ==
    \A j, k \in 1..Len(positions) :
        positions[j].grid_index = positions[k].grid_index => j = k

\* A level was bought, sold and bought again while another position stayed open.
C1_Witness ==
    /\ Len(positions) >= 2
    /\ \E t \in SeqRange(filled_orders) : HeldAt(positions, t.grid_index - 1) # {}

\* ----------------------------------------------------------------------- C2
\* What the scan's caller was answered by the gate for level i
GateOpened(scan, i) == \E g \in SeqRange(scan.gates) : g.grid_index = i /\ g.open

ExpectedIntents(scan) ==
    {Signal("buy", grids[i + 1], i) : i \in
        {i \in Levels : /\ RLe(scan.price, grids[i + 1])
                        /\ RLt(grids[i + 1], scan.previous)
                        /\ HeldAt(scan.positions, i) = {}
                        /\ GateOpened(scan, i)}}
    \cup
    {Signal("sell", grids[i + 1], i) : i \in
        {i \in Levels : /\ RGe(scan.price, grids[i + 1])
                        /\ RGt(grids[i + 1], scan.previous)
                        /\ HeldAt(scan.positions, i - 1) # {}}}

\* C2: a scan returns exactly the buy intents of the levels crossed downward that
\* hold no position and for which the gate answered true, and the sell intents of
\* the levels crossed upward whose index-1 slot holds a position; one intent per
\* qualifying level, in ascending order of the level index.
C2_ScanIntents ==
    (last_scan.valid /\ ~last_scan.raised) =>
        /\ SeqRange(last_scan.signals) = ExpectedIntents(last_scan)
        /\ \A j, k \in 1..Len(last_scan.signals) :
             j < k => last_scan.signals[j].grid_index < last_scan.signals[k].grid_index

\* One step crossed two levels upward and sold at both.
C2_Witness ==
    /\ last_scan.valid
    /\ Len(last_scan.signals) >= 2
    /\ \A s \in SeqRange(last_scan.signals) : s.action = "sell"

\* ----------------------------------------------------------------------- C3
\* C3: with a position open at index i-1, executing a sell at index i and any
\* ladder price removes exactly that position, appends one closed trade with
\* profit (A/p1)*p2 - A and profit_pct = profit/A*100, adds the profit to the
\* realized profit, counts one more trade, and counts a win exactly if profit > 0.
C3_SellExecution ==
    \A i \in Levels : \A p2 \in SeqRange(grids) :
        HeldAt(positions, i - 1) # {} =>
            LET k == CHOOSE k \in HeldAt(positions, i - 1) : TRUE
                A == positions[k].cost
                p1 == positions[k].price
                profit == RSub(RMul(RDiv(A, p1), p2), A)
                r == execute_trade(Self, "sell", p2, i)
                closed == r.self.filled_orders[Len(r.self.filled_orders)]
            IN  /\ ~r.raised
                /\ A = Rat(DefaultInvestment, grid_count)
                /\ r.self.positions =
                     SubSeq(positions, 1, k - 1) \o SubSeq(positions, k + 1, Len(positions))
                /\ Len(r.self.filled_orders) = Len(filled_orders) + 1
                /\ SubSeq(r.self.filled_orders, 1, Len(filled_orders)) = filled_orders
                /\ closed.profit = profit
                /\ closed.profit_pct = RMul(RDiv(profit, A), R(100))
                /\ closed.buy_price = p1 /\ closed.sell_price = p2
                /\ r.self.total_profit = RAdd(total_profit, profit)
                /\ r.self.trade_count = trade_count + 1
                /\ r.self.win_count = win_count + (IF RGt(profit, R(0)) THEN 1 ELSE 0)

\* A sell was executed in the replay and another position is still open.
C3_Witness ==
    /\ Len(filled_orders) >= 1
    /\ win_count >= 1
    /\ total_profit = filled_orders[1].profit
    /\ Len(positions) >= 1

\* ----------------------------------------------------------------------- C4
\* C4: with the trend filter enabled, in a backtest from a fresh trader no buy is
\* emitted or executed at a sample whose trend label is 'down': no open position
\* and no closed trade was entered under 'down', no trade-log row is a buy with
\* trend 'down', and a scan made under 'down' returns no buy.
C4_NoBuyInDowntrend ==
    trend_filter =>
        /\ \A p \in SeqRange(positions) : p.trend_at_entry # "down"
        /\ \A t \in SeqRange(filled_orders) : t.trend_at_entry # "down"
        /\ \A row \in SeqRange(trade_log) : row.action = "buy" => row.trend # "down"
        /\ (last_scan.valid /\ last_scan.trend = "down") =>
               \A s \in SeqRange(last_scan.signals) : s.action # "buy"

\* Under 'down' with the filter on, a step fell through a level with an empty slot
\* and the scan returned nothing.
C4_Witness ==
    /\ trend_filter
    /\ last_scan.valid /\ ~last_scan.raised
    /\ last_scan.trend = "down"
    /\ last_scan.signals = <<>>
    /\ \E i \in Levels :
         /\ RLe(last_scan.price, grids[i + 1])
         /\ RLt(grids[i + 1], last_scan.previous)
         /\ HeldAt(last_scan.positions, i) = {}

\* ----------------------------------------------------------------------- C5
\* Realized plus unrealized profit of the book the scan saw, valued at the sample
\* being scanned, in percent of the initial investment
RECURSIVE Unrealized(_, _)
Unrealized(ps, price) ==
    IF ps = <<>> THEN R(0)
    ELSE RAdd(RSub(RMul(RDiv(Head(ps).cost, Head(ps).price), price), Head(ps).cost),
              Unrealized(Tail(ps), price))

ReplayReturnPct(scan) ==
    RDiv(RMul(RAdd(scan.total_profit, Unrealized(scan.positions, scan.price)), R(100)),
         R(DefaultInvestment))

BelowStopLoss(scan) == RLt(ReplayReturnPct(scan), R(-15))

\* C5: with the trend filter enabled, a scan made while the total return of the
\* replay state is below -15% emits no buy intent.
C5_StopLossBlocksBuys ==
    (trend_filter /\ last_scan.valid /\ BelowStopLoss(last_scan)) =>
        \A s \in SeqRange(last_scan.signals) : s.action # "buy"

\* ----------------------------------------------------------------------- C6
\* C6: with the trend filter disabled the gate answers true in every reachable
\* state and under every trend label, without asking the exchange, and a scan
\* returns a buy for every level crossed downward whose slot is empty.
C6_FilterOffGateOpen ==
    ~trend_filter =>
        /\ \A label \in {"up", "down", "neutral"} :
             \A g \in should_open_position([Self EXCEPT !.trend = label]) :
                 g.open /\ ~g.raised /\ g.ticks = <<>>
        /\ last_scan.valid =>
             /\ ~last_scan.raised
             /\ {s.grid_index : s \in {x \in SeqRange(last_scan.signals) : x.action = "buy"}}
                  = {i \in Levels : /\ RLe(last_scan.price, grids[i + 1])
                                    /\ RLt(grids[i + 1], last_scan.previous)
                                    /\ HeldAt(last_scan.positions, i) = {}}

\* Filter off: a buy was emitted under 'down' with the return below -15%.
C6_Witness ==
    /\ ~trend_filter
    /\ last_scan.valid
    /\ last_scan.trend = "down"
    /\ BelowStopLoss(last_scan)
    /\ \E s \in SeqRange(last_scan.signals) : s.action = "buy"

\* ----------------------------------------------------------------------- C7
\* C7: the replay is a function of the series and the parameters: from every
\* state of a run, the scan of the next sample returns one list of intents (and
\* so one continuation of the trade log), whatever last price the exchange
\* answers at that moment.
C7_ReplayDeterministic ==
    (pc \in {"READY", "RUNNING"} /\ idx < Len(historical_data)) =>
        Cardinality({scan.signals :
                        scan \in {x \in check_grid_signals(SampleSelf, SamplePrice) :
                                     ~x.raised}}) <= 1

\* ----------------------------------------------------------------------- C8
\* C8: no market-data fetch happens between the first and the last sample of a
\* replay.
C8_NoFetchInReplay == replay_fetches = 0

\* ----------------------------------------------------------------------- C9
\* C9: once a run has reached DONE the same state object is not replayed: no
\* run after the first iterates the series over positions, closed trades or
\* counters that an earlier run left behind.
C9_SinglePass ==
    ~(/\ runs > 1
      /\ pc = "RUNNING"
      /\ (positions # <<>> \/ filled_orders # <<>> \/ trade_count > 0))

\* ---------------------------------------------------------------------- C10
\* The bounds the ladder in grids was built from: the anchor-mode bounds while no
\* series has been loaded, the historical-mode bounds afterwards
LadderLower ==
    IF historical_data = <<>>
    THEN RSub(base_price, RDiv(RMul(base_price, R(8)), R(100)))
    ELSE RSub(R(SeqMin(historical_data)),
              Rat((SeqMax(historical_data) - SeqMin(historical_data)) * 5, 100))
LadderUpper ==
    IF historical_data = <<>>
    THEN RAdd(base_price, RDiv(RMul(base_price, R(8)), R(100)))
    ELSE RAdd(R(SeqMax(historical_data)),
              Rat((SeqMax(historical_data) - SeqMin(historical_data)) * 5, 100))

\* C10: a ladder built from lower < upper and count >= 1 has count+1 levels,
\* level_i = lower + i*(upper-lower)/count, strictly increasing, from lower to
\* upper, in anchor mode and in historical mode.
C10_LadderShape ==
    (grids # <<>> /\ grid_count >= 1 /\ RLt(LadderLower, LadderUpper)) =>
        /\ Len(grids) = grid_count + 1
        /\ \A i \in 0..grid_count :
             grids[i + 1] =
               RAdd(LadderLower,
                    RDiv(RMul(R(i), RSub(LadderUpper, LadderLower)), R(grid_count)))
        /\ \A i \in 1..grid_count : RLt(grids[i], grids[i + 1])
        /\ grids[1] = LadderLower
        /\ grids[grid_count + 1] = LadderUpper

\* A historical-mode ladder of at least three levels over a series that moves.
C10_Witness ==
    /\ pc = "READY"
    /\ historical_data # <<>>
    /\ Len(grids) >= 3
    /\ RLt(LadderLower, LadderUpper)

\* ---------------------------------------------------------------------- C11
\* C11: a ladder built with count < 1 or lower >= upper is refused before any
\* sample is replayed: no scan ever runs against a ladder that has fewer than
\* two levels or whose levels are not strictly increasing.
C11_ScanOnValidLadder ==
    last_scan.valid =>
        /\ Len(grids) >= 2
        /\ \A i \in 1..(Len(grids) - 1) : RLt(grids[i], grids[i + 1])

\* ---------------------------------------------------------------------- C12
\* C12: executing a buy at a grid index that already holds an open position
\* fails and leaves the book and the counters unchanged, so the book never holds
\* two positions at one index, also when the buy is executed directly.
C12_DuplicateBuyRefused ==
    (/\ last_call.op = "execute_trade"
     /\ last_call.action = "buy"
     /\ HeldAt(last_call.before.positions, last_call.grid_index) # {}) =>
        /\ last_call.raised
        /\ positions = last_call.before.positions
        /\ trade_count = last_call.before.trade_count
        /\ \A i \in Levels : Cardinality(HeldAt(positions, i)) <= 1

\* ---------------------------------------------------------------------- C13
\* C13: executing a sell at index i while no position is open at index i-1 fails
\* with an error that ends the run (the signals after it are not executed and
\* nothing is logged), and leaves the open positions, the closed trades, the
\* realized profit, the trade counter and the win counter as they were.
C13_SellWithoutPosition ==
    (/\ last_call.op = "execute_trade"
     /\ last_call.action = "sell"
     /\ HeldAt(last_call.before.positions, last_call.grid_index - 1) = {}) =>
        /\ last_call.raised
        /\ positions = last_call.before.positions
        /\ filled_orders = last_call.before.filled_orders
        /\ total_profit = last_call.before.total_profit
        /\ trade_count = last_call.before.trade_count
        /\ win_count = last_call.before.win_count
        /\ LET ex == ExecuteSignals(last_call.before,
                       <<Signal("sell", last_call.price, last_call.grid_index),
                         Signal("buy", last_call.price, last_call.grid_index)>>,
                       trade_log, idx)
           IN  ex.raised /\ ex.self = last_call.before /\ ex.log = trade_log

\* A sell found no position at the index below while the book held another one.
C13_Witness ==
    /\ last_call.op = "execute_trade"
    /\ last_call.action = "sell"
    /\ last_call.error = "IndexError"
    /\ positions # <<>>
    /\ HeldAt(positions, last_call.grid_index - 1) = {}

\* ---------------------------------------------------------------------- C14
\* Sum of the last n samples of a window
TailSum(h, n) == SeqSum(SubSeq(h, Len(h) - n + 1, Len(h)))

\* (mean of last 7 - mean of last 25) / mean of last 25 * 100 compared with
\* +2 and -2, in integers: the means are S7/7 and S25/25 and S25 > 0
AboveThreshold(h) ==
    (25 * TailSum(h, 7) - 7 * TailSum(h, 25)) * 100 > 2 * 7 * TailSum(h, 25)
BelowThreshold(h) ==
    (25 * TailSum(h, 7) - 7 * TailSum(h, 25)) * 100 < (-2) * 7 * TailSum(h, 25)

\* C14: the classifier returns 'neutral' for a window of fewer than 25 samples
\* and then leaves the two moving averages untouched; for 25 samples or more it
\* returns 'up' exactly if (mean of last 7 - mean of last 25) / mean of last 25
\* * 100 > 2, 'down' exactly if that value < -2, 'neutral' otherwise, and the
\* result depends only on the last 25 samples.
C14_TrendClassifier ==
    last_call.op = "calculate_trend" =>
        LET h == last_call.price_history
        IN  IF Len(h) < 25
            THEN /\ last_call.label = "neutral"
                 /\ ma_short = last_call.before.ma_short
                 /\ ma_long = last_call.before.ma_long
            ELSE /\ last_call.label = "up" <=> AboveThreshold(h)
                 /\ last_call.label = "down" <=> BelowThreshold(h)
                 /\ last_call.label = "neutral" <=>
                        (~AboveThreshold(h) /\ ~BelowThreshold(h))
                 /\ \A w \in TrendWindows :
                        (Len(w) >= 25 /\ LastN(w, 25) = LastN(h, 25)) =>
                            /\ calculate_trend(last_call.before, w).label = last_call.label
                            /\ calculate_trend(last_call.before, w).self.ma_short = ma_short
                            /\ calculate_trend(last_call.before, w).self.ma_long = ma_long

\* A window longer than 25 samples whose difference is exactly 2% was classified
\* after the averages had been set by an earlier call.
C14_Witness ==
    /\ last_call.op = "calculate_trend"
    /\ Len(last_call.price_history) > 25
    /\ last_call.before.ma_long # R(0)
    /\ last_call.label = "neutral"
    /\ 25 * TailSum(last_call.price_history, 7) * 100
         = 102 * 7 * TailSum(last_call.price_history, 25)

\* ---------------------------------------------------------------------- C15
\* C15: after any sequence of executions the reported win_rate is
\* win_count / trade_count * 100, lies between 0 and 100, and is 0 when
\* trade_count is 0.
C15_WinRateRange ==
    (last_call.op = "get_status" /\ ~last_call.raised) =>
        /\ RGe(last_call.status.win_rate, R(0))
        /\ RLe(last_call.status.win_rate, R(100))
        /\ trade_count = 0 => last_call.status.win_rate = R(0)
        /\ trade_count > 0 =>
             last_call.status.win_rate = Rat(win_count * 100, trade_count)

\* The status was reported after a buy and a winning sell.
C15_Witness ==
    /\ last_call.op = "get_status" /\ ~last_call.raised
    /\ win_count >= 1
    /\ RGt(last_call.status.win_rate, R(0))

\* ---------------------------------------------------------------------- C16
\* The largest value of the equity curve up to its k-th point
PeakAt(curve, k) ==
    CHOOSE m \in {curve[j] : j \in 1..k} : \A j \in 1..k : RGe(m, curve[j])

\* (running peak - equity) / peak * 100 at the k-th point of the curve
DrawdownAt(curve, k) ==
    RDiv(RMul(RSub(PeakAt(curve, k), curve[k]), R(100)), PeakAt(curve, k))

\* The equity curve of the closed trades over an investment of inv
CurveOver(inv) ==
    [k \in 1..(Len(filled_orders) + 1) |->
        IF k = 1 THEN R(inv)
        ELSE RAdd(R(inv), SumProfit(SubSeq(filled_orders, 1, k - 1)))]

Investments == {100, 1000, 5000}

RECURSIVE ValueAt(_, _)
ValueAt(ps, p) ==
    IF ps = <<>> THEN R(0)
    ELSE RAdd(RDiv(RMul(Head(ps).cost, p), Head(ps).price), ValueAt(Tail(ps), p))

\* (total_value - investment) / investment * 100 with the open positions valued
\* at the last close of the replayed series
ReturnAtLastClose ==
    LET cash == RSub(R(DefaultInvestment), SumCost(positions))
        total_value ==
            RAdd(RAdd(cash, ValueAt(positions, R(historical_data[Len(historical_data)]))),
                 total_profit)
    IN  RDiv(RMul(RSub(total_value, R(DefaultInvestment)), R(100)), R(DefaultInvestment))

\* C17: the report's total_return_pct is (total_value - investment) / investment
\* * 100 with total_value = cash + value of the open positions at the last price
\* of the replayed series + realized profit; no other price enters it.
C17_ReturnAtLastClose ==
    (last_call.op = "generate_report" /\ ~last_call.raised /\ pc = "DONE") =>
        last_call.report.total_return_pct = ReturnAtLastClose

\* ---------------------------------------------------------------------- C18
\* C18: every division of the status and report computations is guarded: with
\* trade_count = 0, elapsed_days = 0 or grid_count = 0 the call completes with a
\* value and no division error.
C18_DivisionsGuarded ==
    last_call.op \in {"execute_trade", "get_status", "generate_report"} =>
        last_call.error # "ZeroDivisionError"

\* ---------------------------------------------------------------------- C19
LogRow(timestamp, action, level, grid_index) ==
    [timestamp |-> timestamp, action |-> action, price |-> R(level),
     grid_index |-> grid_index, trend |-> "neutral"]

\* The trade log of the scenario after the first n samples
ScenarioLog(n) ==
    (IF n >= 2 THEN <<LogRow(1, "buy", 95, 1)>> ELSE <<>>)
    \o (IF n >= 4 THEN <<LogRow(3, "sell", 100, 2)>> ELSE <<>>)
    \o (IF n >= 5 THEN <<LogRow(4, "buy", 105, 3)>> ELSE <<>>)

\* C19: investment 1000, grid_count 4, levels [90, 95, 100, 105, 110], filter
\* off, prices [100, 94, 96, 106, 104] from a fresh state: buy level 95 index 1
\* (cost 250) at step 94; nothing at step 96; sell level 100 index 2 closing the
\* index-1 position at step 106 and no sell at level 105; buy level 105 index 3
\* at step 104; at the end trade counter 3, one closed trade, win counter 1 and
\* one open position at index 3.
C19_Scenario ==
    (exchange_series = <<100, 94, 96, 106, 104>> /\ ~trend_filter) =>
        /\ pc # "FAILED"
        /\ trade_log = ScenarioLog(idx)
        /\ idx \in {2, 3} =>
             /\ Len(positions) = 1
             /\ positions[1].grid_index = 1
             /\ positions[1].price = R(95)
             /\ positions[1].cost = R(250)
             /\ positions[1].quantity = Rat(250, 95)
             /\ filled_orders = <<>>
        /\ idx = 4 =>
             /\ positions = <<>>
             /\ Len(filled_orders) = 1
             /\ filled_orders[1].buy_price = R(95)
             /\ filled_orders[1].sell_price = R(100)
             /\ filled_orders[1].profit = RSub(RMul(Rat(250, 95), R(100)), R(250))
        /\ idx = 5 =>
             /\ trade_count = 3
             /\ Len(filled_orders) = 1
             /\ win_count = 1
             /\ total_profit = Rat(250, 19)
             /\ Len(positions) = 1
             /\ positions[1].grid_index = 3
             /\ positions[1].price = R(105)

\* The scenario was replayed to its end.
C19_Witness ==
    /\ exchange_series = <<100, 94, 96, 106, 104>>
    /\ ~trend_filter
    /\ pc = "DONE"
    /\ Len(trade_log) = 3

\* ---------------------------------------------------------------------- C20
\* The label of the sample at index t: classified from the closes up to and
\* including it once t >= 25, the initial label before
LabelAt(t) ==
    IF t < 25 THEN "neutral"
    ELSE LET h == SubSeq(historical_data, 1, t + 1)
         IN  IF AboveThreshold(h) THEN "up"
             ELSE IF BelowThreshold(h) THEN "down"
             ELSE "neutral"

\* Samples whose trend update has run
Classified ==
    IF pc = "FAILED" /\ last_scan.valid THEN last_scan.timestamp + 1 ELSE idx

\* Samples at which the label differs from the label of the sample before
ChangeTimes == {t \in 0..(Classified - 1) : LabelAt(t) # LabelAt(t - 1)}

\* The rows of the trade log written at sample t
RowsAt(t) == SelectSeq(trade_log, LAMBDA row : row.timestamp = t)

\* C20: for every sample the driver updates the trend, scans against the
\* previous sample's price, executes every intent with one trade-log row per
\* intent, and only then sets the previous price to the sample's price.  The
\* trend-change log holds exactly the label transitions: from # to in every
\* event, the first 'from' is the initial label, each later 'from' is the
\* preceding 'to', and no event at a sample whose label stayed the same.
C20_DriverOrder ==
    /\ (last_scan.valid /\ ~last_scan.raised) =>
         LET t == last_scan.timestamp
         IN  /\ idx = t + 1
             /\ last_scan.trend = LabelAt(t)
             /\ last_scan.previous = R(historical_data[IF t = 0 THEN 1 ELSE t])
             /\ last_scan.price = R(historical_data[t + 1])
             /\ Len(RowsAt(t)) = Len(last_scan.signals)
             /\ \A k \in 1..Len(last_scan.signals) :
                    /\ RowsAt(t)[k].action = last_scan.signals[k].action
                    /\ RowsAt(t)[k].price = last_scan.signals[k].price
                    /\ RowsAt(t)[k].grid_index = last_scan.signals[k].grid_index
                    /\ RowsAt(t)[k].trend = LabelAt(t)
             /\ SubSeq(trade_log, Len(trade_log) - Len(RowsAt(t)) + 1, Len(trade_log))
                  = RowsAt(t)
             /\ current_price = R(historical_data[t + 1])
    /\ {trend_changes[k].timestamp : k \in 1..Len(trend_changes)} = ChangeTimes
    /\ \A k \in 1..Len(trend_changes) :
         LET e == trend_changes[k]
         IN  /\ e.from # e.to
             /\ e.from = LabelAt(e.timestamp - 1)
             /\ e.to = LabelAt(e.timestamp)
             /\ e.price = R(historical_data[e.timestamp + 1])
             /\ e.from = IF k = 1 THEN "neutral" ELSE trend_changes[k - 1].to
             /\ k > 1 => trend_changes[k - 1].timestamp < e.timestamp

\* The label changed twice, and the sample of the second change was traded under
\* its new label.
C20_Witness ==
    /\ Len(trend_changes) >= 2
    /\ last_scan.valid /\ ~last_scan.raised
    /\ last_scan.timestamp = trend_changes[Len(trend_changes)].timestamp
    /\ last_scan.signals # <<>>

C22_Accounting ==
    /\ trade_count = Len(trade_log)
    /\ trade_count = Len(positions) + 2 * Len(filled_orders)
    /\ total_profit = SumProfit(filled_orders)
    /\ win_count = Cardinality({k \in 1..Len(filled_orders) :
                                   RGt(filled_orders[k].profit, R(0))})
    /\ \A i \in Levels :
         LET r == execute_trade(Self, "buy", grids[i + 1], i)
         IN  /\ ~r.raised
             /\ Len(r.self.positions) = Len(positions) + 1
             /\ SubSeq(r.self.positions, 1, Len(positions)) = positions
             /\ r.self.positions[Len(positions) + 1].grid_index = i
             /\ r.self.trade_count = trade_count + 1
             /\ [r.self EXCEPT !.positions = positions, !.trade_count = trade_count]
                  = Self

\* Sells and buys have been executed and a position is open.
C22_Witness ==
    /\ Len(filled_orders) >= 2
    /\ Len(positions) >= 1
    /\ trade_count >= 5

\* ---------------------------------------------------------------------- C23
\* C23: in a replay every closed trade was bought at the level below the level
\* it was sold at and has a profit > 0, so the win counter is the number of
\* closed trades.
C23_ProfitPositive ==
    /\ \A k \in 1..Len(filled_orders) :
         LET t == filled_orders[k]
         IN  /\ t.buy_price = grids[t.grid_index]
             /\ t.sell_price = grids[t.grid_index + 1]
             /\ RLt(t.buy_price, t.sell_price)
             /\ RGt(t.profit, R(0))
    /\ win_count = Len(filled_orders)

\* Two positions of different levels were closed.
C23_Witness ==
    /\ Len(filled_orders) >= 2
    /\ filled_orders[1].grid_index # filled_orders[2].grid_index

\* ---------------------------------------------------------------------- C24
\* C24: twice the win counter never exceeds the trade counter, so a reported
\* win_rate never exceeds 50%.
C24_WinRateHalf ==
    /\ win_count * 2 <= trade_count
    /\ (last_call.op = "generate_report" /\ ~last_call.raised) =>
         RLe(last_call.report.win_rate, R(50))

\* A report with a win rate of exactly 50%: every buy has been sold.
C24_Witness ==
    /\ last_call.op = "generate_report" /\ ~last_call.raised
    /\ trade_count >= 2
    /\ last_call.report.win_rate = R(50)

\* ---------------------------------------------------------------------- C25
\* C25: the max_drawdown reported after a backtest is exactly 0, whatever the
\* open positions have lost.
C25_NoDrawdownAfterBacktest ==
    (last_call.op = "generate_report" /\ ~last_call.raised) =>
        last_call.report.max_drawdown = R(0)

\* A report after a run that closed a trade and left a position open that was
\* bought above the last close.
C25_Witness ==
    /\ last_call.op = "generate_report" /\ ~last_call.raised
    /\ filled_orders # <<>>
    /\ \E p \in SeqRange(positions) :
         RGt(p.price, R(historical_data[Len(historical_data)]))

\* ---------------------------------------------------------------------- C26
\* C26: a scan never returns a buy together with a sell, returns nothing when
\* the price equals the previous price, and so returns nothing for the first
\* sample of a backtest.
C26_OneDirection ==
    last_scan.valid =>
        /\ ~(/\ \E s \in SeqRange(last_scan.signals) : s.action = "buy"
             /\ \E s \in SeqRange(last_scan.signals) : s.action = "sell")
        /\ (\E s \in SeqRange(last_scan.signals) : s.action = "buy") =>
               RLt(last_scan.price, last_scan.previous)
        /\ (\E s \in SeqRange(last_scan.signals) : s.action = "sell") =>
               RGt(last_scan.price, last_scan.previous)
        /\ last_scan.price = last_scan.previous => last_scan.signals = <<>>
        /\ last_scan.timestamp = 0 =>
               /\ last_scan.previous = last_scan.price
               /\ last_scan.signals = <<>>

\* A later sample repeated the price of the one before it, at a level of the
\* ladder, while a position was open.
C26_Witness ==
    /\ last_scan.valid /\ ~last_scan.raised
    /\ last_scan.timestamp > 0
    /\ last_scan.price = last_scan.previous
    /\ last_scan.positions # <<>>
    /\ \E i \in Levels : grids[i + 1] = last_scan.price

\* ---------------------------------------------------------------------- C27
\* C27: in a backtest on the ladder built from the series no position is opened
\* at index 0 or at index grid_count, so at most grid_count - 1 positions are
\* open and their total cost never exceeds the investment.
C27_EdgeLevelsUnused ==
    historical_data # <<>> =>
        /\ \A p \in SeqRange(positions) : p.grid_index \in 1..(grid_count - 1)
        /\ \A row \in SeqRange(trade_log) :
             row.action = "buy" => row.grid_index \in 1..(grid_count - 1)
        /\ Len(positions) <= grid_count - 1
        /\ RLe(SumCost(positions), R(DefaultInvestment))
        /\ RGe(RSub(R(DefaultInvestment), SumCost(positions)), R(0))

\* Every inner level of a ladder of four levels or more holds a position.
C27_Witness ==
    /\ historical_data # <<>>
    /\ grid_count >= 3
    /\ Len(positions) = grid_count - 1

\* ---------------------------------------------------------------------- C28
\* The rows of the trade log that open or close the slot k
EventsAt(k) ==
    SelectSeq(trade_log,
              LAMBDA row : \/ row.action = "buy" /\ row.grid_index = k
                           \/ row.action = "sell" /\ row.grid_index = k + 1)

\* C28: in the trade log of a replay from a fresh state, for every index k the
\* buys at index k and the sells at index k+1 alternate, beginning with a buy.
C28_BuySellAlternate ==
    \A k \in Levels :
        \A j \in 1..Len(EventsAt(k)) :
            EventsAt(k)[j].action = IF j % 2 = 1 THEN "buy" ELSE "sell"

\* A slot was bought, sold and bought again.
C28_Witness ==
    \E k \in Levels :
        /\ Len(EventsAt(k)) >= 3
        /\ EventsAt(k)[3].action = "buy"


=============================================================================
